---- MODULE Spec2Model ----
(***************************************************************************)
(* Order / payment reconciliation of the nest-api repository.              *)
(*                                                                         *)
(* State: the `orders` table (order.entity.ts) and the webhook requests    *)
(* the server has taken, each with the position of its handler.  The       *)
(* handler is WebhooksController.handleStripeWebhook; every database       *)
(* statement it awaits is a step of its own, so that concurrent deliveries *)
(* interleave as they do on the event loop.                                *)
(*                                                                         *)
(* The orders table outlives the process.  Rows are written by             *)
(* OrdersService.create, by OrdersService.updateStripeSession and by       *)
(* scripts/populate-test-data.ts (which inserts PAID and FAILED rows that  *)
(* carry a session id); Init draws the table from rows the columns of      *)
(* order.entity.ts admit.                                                  *)
(*                                                                         *)
(* Spec is the webhook side.  SpecCheckout is the side of the callers:     *)
(* OrdersService.create and PaymentsService.createCheckoutSession with the *)
(* payment processor, again one step per awaited call.                     *)
(***************************************************************************)
EXTENDS Naturals, Sequences, FiniteSets, TLC

\* The number of webhook deliveries a behaviour takes.
MaxDeliveries == 2

NULL == "NULL"

PENDING == "PENDING"
PAID == "PAID"
FAILED == "FAILED"
OrderStatus == {PENDING, PAID, FAILED}

OrderIds == {"o1", "o2"}

\* The columns of an order row that the services read and write.
Columns == {"userId", "productId", "amount", "status", "stripeSessionId"}

(***************************************************************************)
(* Stripe events.  `session` is the checkout session the event belongs to  *)
(* (data.object.id of a checkout.session.completed event), `orderId` is    *)
(* data.object.metadata.orderId (NULL when the metadata carries none).     *)
(* The id of an event determines its payload.                              *)
(***************************************************************************)
CheckoutSessionCompleted == "checkout.session.completed"
PaymentIntentSucceeded == "payment_intent.succeeded"
PaymentIntentFailed == "payment_intent.payment_failed"
CustomerCreated == "customer.created"

Event(type, session, orderId) ==
    [id |-> <<type, session, orderId>>, type |-> type,
     session |-> session, orderId |-> orderId]

NoEvent == Event("none", NULL, NULL)

Events ==
    {Event(CheckoutSessionCompleted, "cs_1", m) : m \in {NULL, "o1", "o2"}}
    \cup {Event(CheckoutSessionCompleted, "cs_9", "o1"),
          Event(PaymentIntentFailed, "cs_1", "o1"),
          Event(PaymentIntentSucceeded, "cs_1", "o1"),
          Event(CustomerCreated, "cs_1", NULL)}

(***************************************************************************)
(* Bytes on the wire and what the handler finds in req.body.               *)
(***************************************************************************)
Serialize(e) == [json |-> TRUE, ev |-> e]
NotJson == [json |-> FALSE, ev |-> NoEvent]
\* String(x) of a plain JavaScript object: "[object Object]".
ObjectString == [json |-> FALSE, ev |-> Event("[object Object]", NULL, NULL)]

RawBodies == {Serialize(e) : e \in Events} \cup {NotJson}

\* JSON.parse: the event of a JSON text; a SyntaxError otherwise.
JsonParse(text) ==
    IF text.json THEN [ok |-> TRUE, event |-> text.ev]
    ELSE [ok |-> FALSE, event |-> NoEvent]

\* req.body as a Buffer of the bytes received.
Buffer(raw) == [kind |-> "Buffer", text |-> raw, value |-> NoEvent]

\* req.body after express.json(): the parsed object.
JsonBodyParser(raw) == [kind |-> "object", text |-> NotJson, value |-> JsonParse(raw).event]

\* The requests that arrive: the bytes received and the form req.body has
\* when the handler runs.  In the object form the handler sees none of the
\* bytes, so two bodies stand for all.
Deliveries ==
    {[raw |-> b, form |-> "Buffer"] : b \in RawBodies}
    \cup {[raw |-> b, form |-> "object"] :
             b \in {Serialize(Event(CheckoutSessionCompleted, "cs_1", "o1")), NotJson}}

\* The string the Stripe library signs and parses for a payload.
PayloadString(payload) ==
    IF payload.kind = "Buffer" THEN payload.text ELSE ObjectString

(***************************************************************************)
(* The stripe-signature header: t=<timestamp>,v1=<HMAC-SHA256 of           *)
(* "<t>.<payload>" under the endpoint secret>.                             *)
(***************************************************************************)
WebhookSecret == "whsec_live"

Hmac(key, t, text) == <<key, t, text>>

NoSignature == [kind |-> "missing", t |-> "now", v1 |-> Hmac("none", "now", NotJson)]
Malformed == [kind |-> "malformed", t |-> "now", v1 |-> Hmac("none", "now", NotJson)]
Signed(key, t, text) == [kind |-> "signed", t |-> t, v1 |-> Hmac(key, t, text)]

\* Some other bytes than `raw`: what a signature lifted from another request signs.
OtherBytes(raw) ==
    IF raw = NotJson THEN Serialize(Event(CustomerCreated, "cs_1", NULL)) ELSE NotJson

\* The headers a request carrying `raw` may come with: none, an unparsable
\* one, the processor's own, an outdated one, one made with another secret,
\* one that signs other bytes, one that signs the string form of an object.
SignatureHeaders(raw) ==
    {NoSignature, Malformed,
     Signed(WebhookSecret, "now", raw),
     Signed(WebhookSecret, "old", raw),
     Signed("whsec_other", "now", raw),
     Signed(WebhookSecret, "now", OtherBytes(raw)),
     Signed(WebhookSecret, "now", ObjectString)}

\* constructEvent with the verification left out: the payload is only parsed.
ConstructEvent_Unverified(payload, header, secret) ==
    JsonParse(PayloadString(payload))

(***************************************************************************)
(* stripe.webhooks.constructEvent(payload, header, secret): the header     *)
(* must carry a timestamp and a v1 signature, the signature must be the    *)
(* HMAC of "<t>.<payload>" under the secret, the timestamp must be within  *)
(* the tolerance, and only then is the payload parsed.  Any failure        *)
(* throws.                                                                 *)
(***************************************************************************)
ConstructEvent(payload, header, secret) ==
    IF header.kind # "signed" THEN [ok |-> FALSE, event |-> NoEvent]
    ELSE IF header.v1 # Hmac(secret, header.t, PayloadString(payload))
         THEN [ok |-> FALSE, event |-> NoEvent]
    ELSE IF header.t # "now" THEN [ok |-> FALSE, event |-> NoEvent]
    ELSE JsonParse(PayloadString(payload))

(***************************************************************************)
(* OrdersService and the repository behind it.                             *)
(***************************************************************************)
NoOrder ==
    [userId |-> NULL, productId |-> NULL, amount |-> NULL,
     status |-> NULL, stripeSessionId |-> NULL]

\* The lookup keyed on the wrong column: any order still PENDING.
FindByStripeSessionId_AnyPending(ords, stripeSessionId) ==
    {o \in OrderIds : ords[o].status = PENDING}

\* orderRepository.findOne({ where: { stripeSessionId } }): the rows that match.
FindByStripeSessionId(ords, stripeSessionId) ==
    {o \in OrderIds : ords[o].stripeSessionId = stripeSessionId}

\* order.status = status (updateStatus, between findOne and save).
SetStatus(order, status) == [order EXCEPT !.status = status]

\* repository.save(entity) reads the stored row and updates the columns in
\* which the entity differs from it; with none it issues no UPDATE.
ChangedColumns(entity, dbEntity) ==
    {c \in Columns : entity[c] # dbEntity[c]}

\* UPDATE orders SET <cols> = <entity's values> WHERE id = ...
UpdateColumns(row, entity, cols) ==
    [userId |-> IF "userId" \in cols THEN entity.userId ELSE row.userId,
     productId |-> IF "productId" \in cols THEN entity.productId ELSE row.productId,
     amount |-> IF "amount" \in cols THEN entity.amount ELSE row.amount,
     status |-> IF "status" \in cols THEN entity.status ELSE row.status,
     stripeSessionId |-> IF "stripeSessionId" \in cols THEN entity.stripeSessionId
                         ELSE row.stripeSessionId]

(***************************************************************************)
(* The handlers of the two payment_intent events.  Neither touches the     *)
(* order store: each only logs.  The result is the orders table after the  *)
(* handler.                                                                *)
(***************************************************************************)
\* payment_intent.succeeded treated like a completed checkout.
HandlePaymentIntentSucceeded_MarksPaid(ords, paymentIntent) ==
    [o \in OrderIds |->
        IF ords[o].stripeSessionId = paymentIntent.session
        THEN [ords[o] EXCEPT !.status = PAID] ELSE ords[o]]

HandlePaymentIntentSucceeded(ords, paymentIntent) == ords

\* payment_intent.payment_failed writing FAILED over whatever is stored.
HandlePaymentIntentFailed_MarksFailed(ords, paymentIntent) ==
    [o \in OrderIds |->
        IF ords[o].stripeSessionId = paymentIntent.session
        THEN [ords[o] EXCEPT !.status = FAILED] ELSE ords[o]]

HandlePaymentIntentFailed(ords, paymentIntent) == ords

(***************************************************************************)
(* Responses.  `result` is what the handler returned or threw.             *)
(***************************************************************************)
Received == "received"                        \* return { received: true }
MissingSignature == "missing_signature"       \* BadRequestException, line 56
WebhookError == "webhook_error"               \* BadRequestException, line 74
ProcessingError == "processing_error"         \* BadRequestException, line 99
BodyParserError == "body_parser_error"        \* express.json(): invalid JSON

HttpStatus(result) == IF result = Received THEN "200" ELSE "400"

(***************************************************************************)
(* Order creation and checkout-session creation: the catalog, the callers, *)
(* the payment processor.                                                  *)
(***************************************************************************)
\* The number of checkout-session requests and of order-creation calls a
\* behaviour takes.
MaxCheckouts == 2
MaxCreates == 2

UserIds == {"u1", "u2"}

\* The products table.  ProductsService has no operation that changes a row.
ProductIds == {"p1", "p2", "p3"}

Products ==
    [p \in ProductIds |->
        IF p = "p1" THEN [name |-> "Widget", price |-> "99.99", isActive |-> TRUE]
        ELSE IF p = "p2" THEN [name |-> "Gadget", price |-> "149.50", isActive |-> TRUE]
        ELSE [name |-> "Retired", price |-> "10.00", isActive |-> FALSE]]

\* A row of the orders table that does not exist.
Exists(ords, id) == ords[id] # NoOrder

\* orderRepository.create({userId, productId, amount, status: PENDING}).
\* The amount kept is the list price, whatever the product.
NewOrder_ListPrice(userId, productId, product) ==
    [userId |-> userId, productId |-> productId, amount |-> "99.99",
     status |-> PENDING, stripeSessionId |-> NULL]

\* orderRepository.create({userId, productId, amount: product.price,
\* status: PENDING}); stripeSessionId is left to its NULL default.
NewOrder(userId, productId, product) ==
    [userId |-> userId, productId |-> productId, amount |-> product.price,
     status |-> PENDING, stripeSessionId |-> NULL]

\* The relation `product` of an order entity that was loaded without it.
Undefined == [name |-> "undefined", price |-> "undefined", isActive |-> FALSE]

\* orderRepository.findOne({ where: { id } }): the row, and its product only
\* when the relation is declared eager.
FindOne(ords, id, eager) ==
    [row |-> ords[id],
     product |-> IF eager THEN Products[ords[id].productId] ELSE Undefined]

\* Whether Order.product is declared eager: it is not (order.entity.ts:31-34);
\* it was when createCheckoutSession, which reads order.product.name, was
\* written.  Both are taken, so that what follows the read is covered.
Eager == {FALSE, TRUE}

\* Math.round(Number(order.amount) * 100): the amount in cents.
UnitAmount(amount) ==
    IF amount = "99.99" THEN 9999
    ELSE IF amount = "149.50" THEN 14950
    ELSE IF amount = "10.00" THEN 1000
    ELSE 0

\* The argument of stripe.checkout.sessions.create; reading order.product.name
\* of an entity without its product throws a TypeError.
SessionParams(order, userId, orderId) ==
    IF order.product = Undefined
    THEN [ok |-> FALSE, name |-> "undefined", unit_amount |-> 0,
          orderId |-> orderId, userId |-> userId]
    ELSE [ok |-> TRUE, name |-> order.product.name,
          unit_amount |-> UnitAmount(order.row.amount),
          orderId |-> orderId, userId |-> userId]

\* The ids the processor gives the sessions it creates, in order.
SessionIds == <<"cs_2", "cs_3", "cs_4", "cs_5">>

\* A processor that hands out one id for every session.
NextSessionId_Reused(created) == SessionIds[1]

\* The id of the session the processor creates after `created` others.
NextSessionId(created) == SessionIds[Len(created) + 1]

\* order.stripeSessionId = stripeSessionId (updateStripeSession).
SetStripeSession(order, stripeSessionId) ==
    [order EXCEPT !.stripeSessionId = stripeSessionId]

\* What createCheckoutSession returned or threw.
Success == "success"                \* { checkoutUrl, sessionId }
OrderNotFound == "order_not_found"  \* NotFoundException, findOne
NotOwner == "not_owner"             \* BadRequestException, line 45
NotPending == "not_pending"         \* BadRequestException, line 50
CheckoutFailed == "checkout_failed" \* BadRequestException, line 89

\* Every failure answered with a status of its own.
CheckoutHttpStatus_PerFailure(result) ==
    IF result = Success THEN "200"
    ELSE IF result = OrderNotFound THEN "404"
    ELSE IF result = NotOwner THEN "403"
    ELSE IF result = NotPending THEN "409"
    ELSE "502"

\* The status Nest answers with: 200 (@HttpCode), 404 for a
\* NotFoundException, 400 for a BadRequestException.
CheckoutHttpStatus(result) ==
    IF result = Success THEN "200"
    ELSE IF result = OrderNotFound THEN "404"
    ELSE "400"

VARIABLES
    orders,     \* the orders table: id -> row
    reqs,       \* the webhook requests taken so far, in order of arrival
    checkouts,  \* the checkout-session requests taken so far
    stripe,     \* the checkout sessions the processor has created
    creates,    \* the order-creation calls taken so far
    users,      \* the users table: the emails of its rows, in order of insertion
    registers,  \* the register calls taken so far
    hits,       \* the throttler's storage: key -> requests counted in the window
    served      \* what the throttler guard decided, request by request

vars == <<orders, reqs, checkouts, stripe, creates, users, registers, hits, served>>

\* What neither the webhook handler nor the order and payment services touch.
xvars == <<users, registers, hits, served>>

\* What the webhook handler never touches.
cvars == <<checkouts, stripe, creates, xvars>>

(***************************************************************************)
(* How the signature header of a request relates to the bytes received.    *)
(* This is the request's own property, not what the handler concluded.     *)
(***************************************************************************)
SignatureVerifies(raw, header) ==
    /\ header.kind = "signed"
    /\ header.v1 = Hmac(WebhookSecret, header.t, raw)
    /\ header.t = "now"

\* The order a session belongs to when the handler starts (NULL: none).
RefOrder(ords, sessionId) ==
    IF \E o \in OrderIds : ords[o].stripeSessionId = sessionId
    THEN CHOOSE o \in OrderIds : ords[o].stripeSessionId = sessionId
    ELSE NULL

\* A request as it enters the handler.  raw, form, verifies, refOrder,
\* refStatus, queried and wrote record what happened; the code keeps none of them.
NewRequest(raw, form, header) ==
    [raw |-> raw, form |-> form, verifies |-> SignatureVerifies(raw, header),
     event |-> NoEvent, pc |-> "done", result |-> Received, log |-> "none",
     orderId |-> NULL, entity |-> NoOrder, diff |-> {},
     refOrder |-> NULL, refStatus |-> NULL, queried |-> FALSE, wrote |-> 0]

\* Nobody registers and no request is counted.
InitRest ==
    /\ users = <<>>
    /\ registers = <<>>
    /\ hits = <<>>
    /\ served = <<>>

InitOrders ==
    {[o \in OrderIds |->
        IF o = "o1"
        THEN [userId |-> "u1", productId |-> "p1", amount |-> "99.99",
              status |-> s, stripeSessionId |-> "cs_1"]
        ELSE [userId |-> "u2", productId |-> "p1", amount |-> "99.99",
              status |-> PENDING, stripeSessionId |-> NULL]] : s \in OrderStatus}

Init ==
    /\ orders \in InitOrders
    /\ reqs = <<>>
    /\ checkouts = <<>>
    /\ stripe = <<>>
    /\ creates = <<>>
    /\ InitRest

(***************************************************************************)
(* handleStripeWebhook, from the request to its first awaited database     *)
(* call: the signature check, constructEvent, the switch on the event type *)
(* and, for checkout.session.completed, the metadata check.                *)
(***************************************************************************)
ReqBody(raw, form) ==
    IF form = "Buffer" THEN Buffer(raw) ELSE JsonBodyParser(raw)

\* The switch on event.type, up to the first await.
Dispatch(r) ==
    IF r.event.type = CheckoutSessionCompleted
    THEN IF r.event.orderId = NULL
         THEN [r EXCEPT !.log = "no_order_id"]
         ELSE [r EXCEPT !.pc = "findByStripeSessionId"]
    ELSE IF r.event.type = PaymentIntentFailed
    THEN [r EXCEPT !.log = "payment_failed"]
    ELSE r

Entering(ords, raw, form, header) ==
    LET r0 == NewRequest(raw, form, header)
        ce == ConstructEvent(ReqBody(raw, form), header, WebhookSecret)
        ref == RefOrder(ords, ce.event.session)
    IN  IF form = "object" /\ ~raw.json
        THEN [r0 EXCEPT !.result = BodyParserError]
        ELSE IF header.kind = "missing"
        THEN [r0 EXCEPT !.result = MissingSignature]
        ELSE IF ~ce.ok
        THEN [r0 EXCEPT !.result = WebhookError, !.log = "signature_failed"]
        ELSE Dispatch([r0 EXCEPT !.event = ce.event, !.refOrder = ref,
                                 !.refStatus = IF ref = NULL THEN NULL
                                               ELSE ords[ref].status])

\* The orders table after the handlers that finish without a database call.
AfterSyncHandlers(ords, r) ==
    IF r.event.type = PaymentIntentSucceeded
    THEN HandlePaymentIntentSucceeded(ords, r.event)
    ELSE IF r.event.type = PaymentIntentFailed
    THEN HandlePaymentIntentFailed(ords, r.event)
    ELSE ords

HandleStripeWebhook ==
    /\ Len(reqs) < MaxDeliveries
    /\ \E d \in Deliveries : \E header \in SignatureHeaders(d.raw) :
          LET r == Entering(orders, d.raw, d.form, header)
          IN  /\ reqs' = Append(reqs, r)
              /\ orders' = AfterSyncHandlers(orders, r)
    /\ UNCHANGED cvars

(***************************************************************************)
(* handleCheckoutSessionCompleted, one step per awaited database call.     *)
(***************************************************************************)
\* ordersService.findByStripeSessionId(session.id); a NotFoundException is
\* logged, rethrown and answered as a BadRequestException.
FindOrderBySession(i) ==
    /\ reqs[i].pc = "findByStripeSessionId"
    /\ LET found == FindByStripeSessionId(orders, reqs[i].event.session)
       IN  IF found = {}
           THEN reqs' = [reqs EXCEPT ![i].pc = "done", ![i].queried = TRUE,
                                     ![i].result = ProcessingError,
                                     ![i].log = "update_failed"]
           ELSE \E o \in found :
                   reqs' = [reqs EXCEPT ![i].pc = "findOne", ![i].queried = TRUE,
                                        ![i].orderId = o]
    /\ UNCHANGED <<orders, cvars>>

\* updateStatus: findOne(orderId), then order.status = PAID.
UpdateStatusFindOne(i) ==
    /\ reqs[i].pc = "findOne"
    /\ reqs' = [reqs EXCEPT ![i].pc = "save",
                            ![i].entity = SetStatus(orders[reqs[i].orderId], PAID)]
    /\ UNCHANGED <<orders, cvars>>

\* updateStatus: orderRepository.save(order), its read of the stored row.
SaveLoad(i) ==
    /\ reqs[i].pc = "save"
    /\ LET cols == ChangedColumns(reqs[i].entity, orders[reqs[i].orderId])
       IN  IF cols = {}
           THEN reqs' = [reqs EXCEPT ![i].pc = "done"]
           ELSE reqs' = [reqs EXCEPT ![i].pc = "update", ![i].diff = cols]
    /\ UNCHANGED <<orders, cvars>>

\* The handler answering without the UPDATE.
SaveUpdate_AckOnly(i) ==
    /\ reqs[i].pc = "update"
    /\ reqs' = [reqs EXCEPT ![i].pc = "done"]
    /\ UNCHANGED <<orders, cvars>>

\* updateStatus: orderRepository.save(order), its UPDATE; then the handler
\* logs and returns { received: true }.
SaveUpdate(i) ==
    /\ reqs[i].pc = "update"
    /\ orders' = [orders EXCEPT ![reqs[i].orderId] =
                      UpdateColumns(@, reqs[i].entity, reqs[i].diff)]
    /\ reqs' = [reqs EXCEPT ![i].pc = "done", ![i].wrote = @ + 1]
    /\ UNCHANGED cvars

Next ==
    \/ HandleStripeWebhook
    \/ \E i \in 1..Len(reqs) : FindOrderBySession(i)
    \/ \E i \in 1..Len(reqs) : UpdateStatusFindOne(i)
    \/ \E i \in 1..Len(reqs) : SaveLoad(i)
    \/ \E i \in 1..Len(reqs) : SaveUpdate(i)

Spec == Init /\ [][Next]_vars

(***************************************************************************)
(* OrdersService.create: the product is read, an inactive one is answered  *)
(* with a NotFoundException, otherwise one row is inserted under a fresh   *)
(* uuid.                                                                   *)
(***************************************************************************)
Created == "created"
ProductNotFound == "product_not_found"          \* NotFoundException, findOne
ProductNotAvailable == "product_not_available"  \* NotFoundException, line 32

\* The status Nest answers an order-creation call with.
CreateHttpStatus(result) == IF result = Created THEN "201" ELSE "404"

\* productRepository.findOne({ where: { id } }) of ProductsService.findOne.
ProductsFindOne(productId) ==
    IF productId \in ProductIds
    THEN [found |-> TRUE, product |-> Products[productId]]
    ELSE [found |-> FALSE, product |-> Undefined]

\* Every product taken for available.
IsAvailable_Always(product) == TRUE

\* product.isActive, the check of OrdersService.create.
IsAvailable(product) == product.isActive

\* An id that is not fresh: the first of the table.
FreshId_First(ords) == "o1"

\* gen_random_uuid(): an id no row has.
FreshId(ords) == CHOOSE id \in OrderIds : ~Exists(ords, id)

\* The calls that arrive: the caller and the product asked for.
CreateCalls ==
    {<<"u1", "p1">>, <<"u1", "p2">>, <<"u2", "p1">>, <<"u1", "p3">>,
     <<"u1", "p9">>}

OrdersCreate ==
    /\ Len(creates) < MaxCreates
    /\ \E id \in OrderIds : ~Exists(orders, id)
    /\ \E call \in CreateCalls :
          LET userId == call[1]
              productId == call[2]
              found == ProductsFindOne(productId)
              product == found.product
              id == FreshId(orders)
          IN  IF ~found.found
              THEN /\ creates' = Append(creates,
                          [userId |-> userId, productId |-> productId,
                           result |-> ProductNotFound, orderId |-> NULL])
                   /\ UNCHANGED orders
              ELSE IF ~IsAvailable(product)
              THEN /\ creates' = Append(creates,
                          [userId |-> userId, productId |-> productId,
                           result |-> ProductNotAvailable, orderId |-> NULL])
                   /\ UNCHANGED orders
              ELSE /\ orders' = [orders EXCEPT
                                    ![id] = NewOrder(userId, productId, product)]
                   /\ creates' = Append(creates,
                          [userId |-> userId, productId |-> productId,
                           result |-> Created, orderId |-> id])
    /\ UNCHANGED <<reqs, checkouts, stripe>>
    /\ UNCHANGED xvars

(***************************************************************************)
(* PaymentsService.createCheckoutSession, one step per awaited call.       *)
(***************************************************************************)
NoParams ==
    [ok |-> FALSE, name |-> "undefined", unit_amount |-> 0,
     orderId |-> NULL, userId |-> NULL]

\* A request as it enters.  existed, owner, status0 and key0 record the
\* order as the request found it, upstream what the processor did, called
\* and wrote how often the processor was called and the order written.
NewCheckout(ords, userId, orderId, eager) ==
    [userId |-> userId, orderId |-> orderId, eager |-> eager,
     pc |-> "done", result |-> Success,
     params |-> NoParams, sessionId |-> NULL, entity |-> NoOrder, diff |-> {},
     existed |-> Exists(ords, orderId), owner |-> ords[orderId].userId,
     status0 |-> ords[orderId].status, key0 |-> ords[orderId].stripeSessionId,
     upstream |-> "none", called |-> 0, wrote |-> 0]

\* createCheckoutSession without its status check.
EnteringCheckout_NoStatusCheck(ords, userId, orderId, eager) ==
    LET c0 == NewCheckout(ords, userId, orderId, eager)
        order == FindOne(ords, orderId, eager)
        params == SessionParams(order, userId, orderId)
    IN  IF ~Exists(ords, orderId)
        THEN [c0 EXCEPT !.result = OrderNotFound]
        ELSE IF order.row.userId # userId
        THEN [c0 EXCEPT !.result = NotOwner]
        ELSE IF ~params.ok
        THEN [c0 EXCEPT !.result = CheckoutFailed]
        ELSE [c0 EXCEPT !.pc = "stripe", !.params = params]

\* createCheckoutSession without its ownership check.
EnteringCheckout_NoOwnerCheck(ords, userId, orderId, eager) ==
    LET c0 == NewCheckout(ords, userId, orderId, eager)
        order == FindOne(ords, orderId, eager)
        params == SessionParams(order, userId, orderId)
    IN  IF ~Exists(ords, orderId)
        THEN [c0 EXCEPT !.result = OrderNotFound]
        ELSE IF order.row.status # PENDING
        THEN [c0 EXCEPT !.result = NotPending]
        ELSE IF ~params.ok
        THEN [c0 EXCEPT !.result = CheckoutFailed]
        ELSE [c0 EXCEPT !.pc = "stripe", !.params = params]

\* findOne(orderId), the ownership check, the status check and the
\* argument of the processor call.
EnteringCheckout(ords, userId, orderId, eager) ==
    LET c0 == NewCheckout(ords, userId, orderId, eager)
        order == FindOne(ords, orderId, eager)
        params == SessionParams(order, userId, orderId)
    IN  IF ~Exists(ords, orderId)
        THEN [c0 EXCEPT !.result = OrderNotFound]
        ELSE IF order.row.userId # userId
        THEN [c0 EXCEPT !.result = NotOwner]
        ELSE IF order.row.status # PENDING
        THEN [c0 EXCEPT !.result = NotPending]
        ELSE IF ~params.ok
        THEN [c0 EXCEPT !.result = CheckoutFailed]
        ELSE [c0 EXCEPT !.pc = "stripe", !.params = params]

\* The declaration of the relation is the same for every request of a run.
Declared(taken) ==
    IF taken = <<>> THEN Eager ELSE {taken[1].eager}

CreateCheckoutSession ==
    /\ Len(checkouts) < MaxCheckouts
    /\ \E userId \in UserIds : \E orderId \in OrderIds :
       \E eager \in Declared(checkouts) :
          checkouts' = Append(checkouts,
                              EnteringCheckout(orders, userId, orderId, eager))
    /\ UNCHANGED <<orders, reqs, stripe, creates>>
    /\ UNCHANGED xvars

\* A session as the processor keeps it.
StripeSession(id, params) ==
    [id |-> id, unit_amount |-> params.unit_amount,
     orderId |-> params.orderId, userId |-> params.userId]

\* stripe.checkout.sessions.create answers with a session, ...
StripeSessionsCreate(i) ==
    /\ checkouts[i].pc = "stripe"
    /\ Len(stripe) < Len(SessionIds)
    /\ LET id == NextSessionId(stripe)
       IN  /\ stripe' = Append(stripe, StripeSession(id, checkouts[i].params))
           /\ checkouts' = [checkouts EXCEPT ![i].pc = "findOne",
                                             ![i].sessionId = id,
                                             ![i].upstream = "ok",
                                             ![i].called = @ + 1]
    /\ UNCHANGED <<orders, reqs, creates>>
    /\ UNCHANGED xvars

\* ... or fails: the error is caught and answered as a BadRequestException ...
StripeSessionsCreateError(i) ==
    /\ checkouts[i].pc = "stripe"
    /\ checkouts' = [checkouts EXCEPT ![i].pc = "done",
                                      ![i].result = CheckoutFailed,
                                      ![i].upstream = "error",
                                      ![i].called = @ + 1]
    /\ UNCHANGED <<orders, reqs, stripe, creates>>
    /\ UNCHANGED xvars

\* A timed-out call that stores the id of the session all the same.
StripeSessionsCreateTimeout_WritesKey(i) ==
    /\ checkouts[i].pc = "stripe"
    /\ Len(stripe) < Len(SessionIds)
    /\ stripe' = Append(stripe,
                        StripeSession(NextSessionId(stripe), checkouts[i].params))
    /\ orders' = [orders EXCEPT ![checkouts[i].orderId].stripeSessionId =
                                    NextSessionId(stripe)]
    /\ checkouts' = [checkouts EXCEPT ![i].pc = "done",
                                      ![i].result = CheckoutFailed,
                                      ![i].upstream = "timeout",
                                      ![i].called = @ + 1]
    /\ UNCHANGED <<reqs, creates>>
    /\ UNCHANGED xvars

\* ... or times out on this side after the processor created the session.
StripeSessionsCreateTimeout(i) ==
    /\ checkouts[i].pc = "stripe"
    /\ Len(stripe) < Len(SessionIds)
    /\ stripe' = Append(stripe,
                        StripeSession(NextSessionId(stripe), checkouts[i].params))
    /\ checkouts' = [checkouts EXCEPT ![i].pc = "done",
                                      ![i].result = CheckoutFailed,
                                      ![i].upstream = "timeout",
                                      ![i].called = @ + 1]
    /\ UNCHANGED <<orders, reqs, creates>>
    /\ UNCHANGED xvars

\* updateStripeSession: findOne(orderId), then order.stripeSessionId = id.
UpdateStripeSessionFindOne(i) ==
    /\ checkouts[i].pc = "findOne"
    /\ checkouts' = [checkouts EXCEPT
          ![i].pc = "save",
          ![i].entity = SetStripeSession(orders[checkouts[i].orderId],
                                         checkouts[i].sessionId)]
    /\ UNCHANGED <<orders, reqs, stripe, creates>>
    /\ UNCHANGED xvars

\* updateStripeSession: orderRepository.save(order), its read of the stored row.
SaveSessionLoad(i) ==
    /\ checkouts[i].pc = "save"
    /\ LET cols == ChangedColumns(checkouts[i].entity, orders[checkouts[i].orderId])
       IN  IF cols = {}
           THEN checkouts' = [checkouts EXCEPT ![i].pc = "done"]
           ELSE checkouts' = [checkouts EXCEPT ![i].pc = "update", ![i].diff = cols]
    /\ UNCHANGED <<orders, reqs, stripe, creates>>
    /\ UNCHANGED xvars

\* createCheckoutSession returning before the session id is stored.
SaveSessionUpdate_ReturnsUnsaved(i) ==
    /\ checkouts[i].pc = "update"
    /\ checkouts' = [checkouts EXCEPT ![i].pc = "done"]
    /\ UNCHANGED <<orders, reqs, stripe, creates>>
    /\ UNCHANGED xvars

\* updateStripeSession: orderRepository.save(order), its UPDATE; then
\* createCheckoutSession returns { checkoutUrl, sessionId }.
SaveSessionUpdate(i) ==
    /\ checkouts[i].pc = "update"
    /\ orders' = [orders EXCEPT ![checkouts[i].orderId] =
                      UpdateColumns(@, checkouts[i].entity, checkouts[i].diff)]
    /\ checkouts' = [checkouts EXCEPT ![i].pc = "done", ![i].wrote = @ + 1]
    /\ UNCHANGED <<reqs, stripe, creates>>
    /\ UNCHANGED xvars

\* The orders table when the checkout endpoints are exercised: o1 is absent,
\* or a row as the application or the populate script left it.
InitCheckoutOrders ==
    {[o \in OrderIds |->
        IF o = "o1" THEN row ELSE NoOrder] :
     row \in {NoOrder,
              NewOrder("u1", "p1", Products["p1"]),
              [userId |-> "u1", productId |-> "p1", amount |-> "99.99",
               status |-> PAID, stripeSessionId |-> "cs_1"],
              [userId |-> "u1", productId |-> "p1", amount |-> "99.99",
               status |-> FAILED, stripeSessionId |-> "cs_1"]}}

InitCheckout ==
    /\ orders \in InitCheckoutOrders
    /\ reqs = <<>>
    /\ checkouts = <<>>
    /\ stripe = <<>>
    /\ creates = <<>>
    /\ InitRest

NextCheckout ==
    \/ OrdersCreate
    \/ CreateCheckoutSession
    \/ \E i \in 1..Len(checkouts) : StripeSessionsCreate(i)
    \/ \E i \in 1..Len(checkouts) : StripeSessionsCreateError(i)
    \/ \E i \in 1..Len(checkouts) : StripeSessionsCreateTimeout(i)
    \/ \E i \in 1..Len(checkouts) : UpdateStripeSessionFindOne(i)
    \/ \E i \in 1..Len(checkouts) : SaveSessionLoad(i)
    \/ \E i \in 1..Len(checkouts) : SaveSessionUpdate(i)

SpecCheckout == InitCheckout /\ [][NextCheckout]_vars

(***************************************************************************)
(* The same with a database that can fail.  updateStripeSession is called  *)
(* inside the try block of createCheckoutSession: an error of its findOne  *)
(* or of its save is caught by the same catch as an error of the processor *)
(* call and answered as the same BadRequestException.                      *)
(***************************************************************************)
UpdateStripeSessionFails(i) ==
    /\ checkouts[i].pc \in {"findOne", "save", "update"}
    /\ checkouts' = [checkouts EXCEPT ![i].pc = "done",
                                      ![i].result = CheckoutFailed]
    /\ UNCHANGED <<orders, reqs, stripe, creates>>
    /\ UNCHANGED xvars

NextCheckoutStorage ==
    \/ NextCheckout
    \/ \E i \in 1..Len(checkouts) : UpdateStripeSessionFails(i)

SpecCheckoutStorage == InitCheckout /\ [][NextCheckoutStorage]_vars

(***************************************************************************)
(* Checkout and webhook together: an order is paid through the session a   *)
(* checkout request created, and the processor reports the payment to the  *)
(* webhook endpoint.                                                       *)
(***************************************************************************)
\* The checkout.session.completed event of a processor session: its
\* metadata is the metadata the session was created with.
CompletedEvent(session) ==
    Event(CheckoutSessionCompleted, session.id, session.orderId)

\* The customer got the checkout URL of the session: a request for it
\* returned { checkoutUrl, sessionId }.
UrlReturned(taken, sessionId) ==
    \E i \in 1..Len(taken) :
        /\ taken[i].sessionId = sessionId
        /\ taken[i].pc = "done"
        /\ taken[i].result = Success

\* The deliveries of an event that are on record.
DeliveriesOf(e) == {j \in 1..Len(reqs) : reqs[j].event = e}

\* The event of the session was answered 200.
Acknowledged(e) ==
    \E j \in DeliveriesOf(e) :
        reqs[j].pc = "done" /\ HttpStatus(reqs[j].result) = "200"

\* The processor delivers the signed event of a paid session, as raw bytes,
\* and delivers it again after every answer other than 200.  Only the last
\* delivery of an event is kept on record.
ProcessorDelivers(k) ==
    /\ k \in 1..Len(stripe)
    /\ UrlReturned(checkouts, stripe[k].id)
    /\ LET e == CompletedEvent(stripe[k])
           raw == Serialize(e)
           r == Entering(orders, raw, "Buffer", Signed(WebhookSecret, "now", raw))
       IN  /\ \A j \in DeliveriesOf(e) :
                 reqs[j].pc = "done" /\ HttpStatus(reqs[j].result) # "200"
           /\ IF DeliveriesOf(e) # {}
              THEN reqs' = [reqs EXCEPT ![CHOOSE j \in DeliveriesOf(e) : TRUE] = r]
              ELSE /\ Len(reqs) < MaxDeliveries
                   /\ reqs' = Append(reqs, r)
           /\ orders' = AfterSyncHandlers(orders, r)
    /\ UNCHANGED cvars

\* One order waits for its payment.
InitPay ==
    /\ orders = [o \in OrderIds |->
                    IF o = "o1" THEN NewOrder("u1", "p1", Products["p1"])
                    ELSE NoOrder]
    /\ reqs = <<>>
    /\ checkouts = <<>>
    /\ stripe = <<>>
    /\ creates = <<>>
    /\ InitRest

NextPay ==
    \/ CreateCheckoutSession
    \/ \E i \in 1..Len(checkouts) : StripeSessionsCreate(i)
    \/ \E i \in 1..Len(checkouts) : StripeSessionsCreateError(i)
    \/ \E i \in 1..Len(checkouts) : StripeSessionsCreateTimeout(i)
    \/ \E i \in 1..Len(checkouts) : UpdateStripeSessionFindOne(i)
    \/ \E i \in 1..Len(checkouts) : SaveSessionLoad(i)
    \/ \E i \in 1..Len(checkouts) : SaveSessionUpdate(i)
    \/ \E k \in 1..Len(SessionIds) : ProcessorDelivers(k)
    \/ \E i \in 1..Len(reqs) : FindOrderBySession(i)
    \/ \E i \in 1..Len(reqs) : UpdateStatusFindOne(i)
    \/ \E i \in 1..Len(reqs) : SaveLoad(i)
    \/ \E i \in 1..Len(reqs) : SaveUpdate(i)

SpecPay == InitPay /\ [][NextPay]_vars

\* A step of the webhook handler after the request was accepted.
WebhookStep ==
    \E i \in 1..Len(reqs) :
        \/ FindOrderBySession(i)
        \/ UpdateStatusFindOne(i)
        \/ SaveLoad(i)
        \/ SaveUpdate(i)

\* A step of a checkout request after it was accepted, the database and
\* the processor answering.
CheckoutStep ==
    \E i \in 1..Len(checkouts) :
        \/ StripeSessionsCreate(i)
        \/ UpdateStripeSessionFindOne(i)
        \/ SaveSessionLoad(i)
        \/ SaveSessionUpdate(i)

\* Every awaited call of a handler returns and the handler runs on: the
\* event loop leaves no continuation waiting for ever.
SpecPayFair ==
    /\ SpecPay
    /\ WF_vars(WebhookStep)
    /\ WF_vars(CheckoutStep)

(***************************************************************************)
(* AuthService.register: the email is looked up, a user found is answered  *)
(* with a ConflictException, otherwise the password is hashed and the user *)
(* inserted.  The email column is unique: an INSERT of a second row with   *)
(* the same email fails, and nothing catches that error.                   *)
(***************************************************************************)
MaxRegisters == 3

Emails == {"a@example.com", "b@example.com"}

Registered == "registered"
EmailConflict == "email_conflict"
QueryFailed == "query_failed"

RegisterHttpStatus(result) ==
    IF result = Registered THEN "201"
    ELSE IF result = EmailConflict THEN "409"
    ELSE "500"

pvars == <<orders, reqs, checkouts, stripe, creates>>

\* userRepository.findOne({ where: { email } }): is there such a row.
FindUserByEmail(rows, email) ==
    \E u \in 1..Len(rows) : rows[u].email = email

\* register, up to the answer of findOne.  taken records whether the email
\* was registered when the call came in.
Register ==
    /\ Len(registers) < MaxRegisters
    /\ \E email \in Emails :
          registers' = Append(registers,
              IF FindUserByEmail(users, email)
              THEN [email |-> email, pc |-> "done", result |-> EmailConflict,
                    taken |-> TRUE, inserted |-> 0]
              ELSE [email |-> email, pc |-> "hash", result |-> Registered,
                    taken |-> FALSE, inserted |-> 0])
    /\ UNCHANGED <<users, hits, served>>
    /\ UNCHANGED pvars

\* bcrypt.hash(password, 10) and userRepository.create.
BcryptHash(i) ==
    /\ registers[i].pc = "hash"
    /\ registers' = [registers EXCEPT ![i].pc = "save"]
    /\ UNCHANGED <<users, hits, served>>
    /\ UNCHANGED pvars

\* userRepository.save(user): the INSERT, which the unique index on email
\* rejects when a row with the email is stored by now.
SaveUser(i) ==
    /\ registers[i].pc = "save"
    /\ IF FindUserByEmail(users, registers[i].email)
       THEN /\ registers' = [registers EXCEPT ![i].pc = "done",
                                              ![i].result = QueryFailed]
            /\ UNCHANGED users
       ELSE /\ users' = Append(users, [email |-> registers[i].email])
            /\ registers' = [registers EXCEPT ![i].pc = "done",
                                              ![i].inserted = @ + 1]
    /\ UNCHANGED <<hits, served>>
    /\ UNCHANGED pvars

NoOrders == [o \in OrderIds |-> NoOrder]

\* Nobody is registered, or one user is.
InitRegister ==
    /\ orders = NoOrders
    /\ reqs = <<>>
    /\ checkouts = <<>>
    /\ stripe = <<>>
    /\ creates = <<>>
    /\ users \in {<<>>, <<[email |-> "a@example.com"]>>}
    /\ registers = <<>>
    /\ hits = <<>>
    /\ served = <<>>

NextRegister ==
    \/ Register
    \/ \E i \in 1..Len(registers) : BcryptHash(i)
    \/ \E i \in 1..Len(registers) : SaveUser(i)

SpecRegister == InitRegister /\ [][NextRegister]_vars

(***************************************************************************)
(* ThrottlerGuard, registered as a global guard: every request to a        *)
(* handler that is not marked with SkipThrottle is counted per handler and *)
(* per source address, and rejected with 429 once the count of the window  *)
(* exceeds the limit.  No handler of the application carries the mark.     *)
(***************************************************************************)
MaxRequests == 2

ProductionLimit == 100
DevelopmentLimit == 10000

NodeEnvs == {"production", "development"}

\* limit: NODE_ENV === 'production' ? 100 : 10000
ThrottleLimit(nodeEnv) ==
    IF nodeEnv = "production" THEN ProductionLimit ELSE DevelopmentLimit

StripeWebhookRoute == "POST /webhooks/stripe"
Routes == {StripeWebhookRoute, "POST /auth/login"}
Ips == {"ip1", "ip2"}
ThrottleKeys == Routes \X Ips

\* The routes whose handler or controller is decorated with @SkipThrottle().
SkipThrottle(route) == FALSE

\* ThrottlerGuard.canActivate: the request is counted, then compared.
CanActivate(guard, route, ip) ==
    LET totalHits == guard.count[<<route, ip>>] + 1
    IN  IF SkipThrottle(route)
        THEN [guard |-> guard, total |-> 0, status |-> "pass"]
        ELSE [guard |-> [guard EXCEPT !.count[<<route, ip>>] = totalHits],
              total |-> totalHits,
              status |-> IF totalHits > ThrottleLimit(guard.nodeEnv)
                         THEN "429" ELSE "pass"]

HandleRequest ==
    /\ Len(served) < MaxRequests
    /\ \E route \in Routes : \E ip \in Ips :
          LET a == CanActivate(hits, route, ip)
          IN  /\ hits' = a.guard
              /\ served' = Append(served,
                     [route |-> route, ip |-> ip, total |-> a.total,
                      limit |-> ThrottleLimit(hits.nodeEnv), status |-> a.status])
    /\ UNCHANGED <<users, registers>>
    /\ UNCHANGED pvars

\* The window of a key (ttl: 60000 ms) ends: its count starts again.
WindowExpires ==
    /\ \E key \in ThrottleKeys :
          /\ hits.count[key] > 0
          /\ hits' = [hits EXCEPT !.count[key] = 0]
    /\ UNCHANGED <<users, registers, served>>
    /\ UNCHANGED pvars

\* The counts of the running windows: none, one below the limit, the limit.
InitThrottle ==
    /\ orders = NoOrders
    /\ reqs = <<>>
    /\ checkouts = <<>>
    /\ stripe = <<>>
    /\ creates = <<>>
    /\ users = <<>>
    /\ registers = <<>>
    /\ \E nodeEnv \in NodeEnvs :
          \E count \in [ThrottleKeys ->
                           {0, ThrottleLimit(nodeEnv) - 1, ThrottleLimit(nodeEnv)}] :
             hits = [nodeEnv |-> nodeEnv, count |-> count]
    /\ served = <<>>

NextThrottle ==
    \/ HandleRequest
    \/ WindowExpires

SpecThrottle == InitThrottle /\ [][NextThrottle]_vars

(***************************************************************************)
(* Properties.                                                             *)
(***************************************************************************)
Requests == 1..Len(reqs)

Done(i) == reqs[i].pc = "done"

\* The request is one the handler authenticated and parsed into an event.
Authenticated(i) == reqs[i].event # NoEvent

C7_BadSignatureRejected ==
    [][(/\ Len(reqs') = Len(reqs) + 1
        /\ ~reqs'[Len(reqs')].verifies)
       => /\ reqs'[Len(reqs')].pc = "done"
          /\ HttpStatus(reqs'[Len(reqs')].result) = "400"
          /\ reqs'[Len(reqs')].event = NoEvent
          /\ ~reqs'[Len(reqs')].queried
          /\ reqs'[Len(reqs')].wrote = 0
          /\ orders' = orders]_vars

\* A body accepted before arrives again, byte for byte, under a header that
\* does not verify, and is rejected.
C7_Witness ==
    \E i, j \in Requests :
        /\ i < j
        /\ reqs[i].raw = reqs[j].raw
        /\ reqs[i].form = "Buffer" /\ reqs[j].form = "Buffer"
        /\ reqs[i].verifies /\ reqs[i].result = Received /\ reqs[i].wrote = 1
        /\ ~reqs[j].verifies /\ reqs[j].result = WebhookError
        /\ ~reqs[j].queried

\* C8: for a JSON notification whose signature verifies against the bytes
\* received, what the handler hands to constructEvent is those bytes, and
\* the notification is authenticated and reaches the switch on its type.
C8_VerifiesRawBytes ==
    \A i \in Requests :
        (reqs[i].verifies /\ reqs[i].raw.json)
        => /\ PayloadString(ReqBody(reqs[i].raw, reqs[i].form)) = reqs[i].raw
           /\ Authenticated(i)
           /\ reqs[i].result # WebhookError

CheckoutRequests == 1..Len(checkouts)

CheckoutDone(i) == checkouts[i].pc = "done"

\* The checkout request taken by the step, when the step takes one.
TakesCheckout == Len(checkouts') = Len(checkouts) + 1

C12_NotPendingRejected ==
    [][(/\ TakesCheckout
        /\ checkouts'[Len(checkouts')].status0 \in {PAID, FAILED}
        /\ checkouts'[Len(checkouts')].owner = checkouts'[Len(checkouts')].userId)
       => /\ checkouts'[Len(checkouts')].pc = "done"
          /\ checkouts'[Len(checkouts')].result = NotPending
          /\ checkouts'[Len(checkouts')].called = 0
          /\ orders' = orders
          /\ stripe' = stripe]_vars

\* The owner of a PAID order, whose product is loaded, has asked for a
\* checkout session and was turned down.
C12_Witness ==
    \E i \in CheckoutRequests :
        /\ checkouts[i].status0 = PAID
        /\ checkouts[i].owner = checkouts[i].userId
        /\ checkouts[i].eager
        /\ checkouts[i].result = NotPending
        /\ orders[checkouts[i].orderId].status = PAID
        /\ stripe = <<>>

\* C13: the step that takes a checkout request from a caller who is not the
\* owner of the order rejects it at once: the processor is not called and
\* neither the orders table nor the processor's sessions change.
C13_NotOwnerRejected ==
    [][(/\ TakesCheckout
        /\ checkouts'[Len(checkouts')].existed
        /\ checkouts'[Len(checkouts')].owner # checkouts'[Len(checkouts')].userId)
       => /\ checkouts'[Len(checkouts')].pc = "done"
          /\ checkouts'[Len(checkouts')].result = NotOwner
          /\ checkouts'[Len(checkouts')].called = 0
          /\ orders' = orders
          /\ stripe' = stripe]_vars

\* Another user has asked for a checkout session for a PENDING order, whose
\* product is loaded, and was turned down.
C13_Witness ==
    \E i \in CheckoutRequests :
        /\ checkouts[i].existed
        /\ checkouts[i].owner = "u1" /\ checkouts[i].userId = "u2"
        /\ checkouts[i].status0 = PENDING
        /\ checkouts[i].eager
        /\ checkouts[i].result = NotOwner
        /\ orders[checkouts[i].orderId].stripeSessionId = checkouts[i].key0

C18_ValidCheckoutSucceeds ==
    \A i \in CheckoutRequests :
        (/\ CheckoutDone(i)
         /\ checkouts[i].existed
         /\ checkouts[i].owner = checkouts[i].userId
         /\ checkouts[i].status0 = PENDING
         /\ checkouts[i].upstream \notin {"error", "timeout"})
        => /\ checkouts[i].result = Success
           /\ checkouts[i].called = 1
           /\ checkouts[i].sessionId # NULL
           /\ checkouts[i].wrote = 1

C20_CreateInsertsOneOrder ==
    [][(/\ Len(creates') = Len(creates) + 1
        /\ creates'[Len(creates')].result = Created)
       => LET call == creates'[Len(creates')]
          IN  /\ ~Exists(orders, call.orderId)
              /\ orders'[call.orderId].userId = call.userId
              /\ orders'[call.orderId].productId = call.productId
              /\ orders'[call.orderId].status = PENDING
              /\ orders'[call.orderId].stripeSessionId = NULL
              /\ \A o \in OrderIds \ {call.orderId} : orders'[o] = orders[o]]_vars

\* Two calls for the same user and product have created two orders.
C20_Witness ==
    \E m, n \in 1..Len(creates) :
        /\ m < n
        /\ creates[m].result = Created /\ creates[n].result = Created
        /\ creates[m].userId = creates[n].userId
        /\ creates[m].productId = creates[n].productId
        /\ creates[m].orderId # creates[n].orderId
        /\ Exists(orders, creates[m].orderId)
        /\ Exists(orders, creates[n].orderId)

\* C21: the step of an order-creation call for a product that does not
\* exist or is not active answers NotFound (404) and leaves the orders table
\* as it was.
C21_UnavailableProductCreatesNothing ==
    [][(/\ Len(creates') = Len(creates) + 1
        /\ \/ creates'[Len(creates')].productId \notin ProductIds
           \/ ~Products[creates'[Len(creates')].productId].isActive)
       => /\ creates'[Len(creates')].result
                \in {ProductNotFound, ProductNotAvailable}
          /\ CreateHttpStatus(creates'[Len(creates')].result) = "404"
          /\ creates'[Len(creates')].orderId = NULL
          /\ orders' = orders]_vars

\* A call for a product that does not exist and a call for an inactive one
\* have both been turned down, and the table holds what it held.
C21_Witness ==
    \E m, n \in 1..Len(creates) :
        /\ creates[m].productId = "p9" /\ creates[m].result = ProductNotFound
        /\ creates[n].productId = "p3" /\ creates[n].result = ProductNotAvailable
        /\ orders \in InitCheckoutOrders

Responds(i) ==
    /\ reqs'[i].pc = "done"
    /\ (i <= Len(reqs) => reqs[i].pc # "done")

C25_WebhooksNotThrottled ==
    \A n \in 1..Len(served) :
        IF served[n].route = StripeWebhookRoute
        THEN served[n].status # "429"
        ELSE served[n].status = "429" <=> served[n].total > served[n].limit

\* C26: no email has two users; a finished register call for an email that
\* was registered when it came in is answered 409 and inserts nothing; and
\* every finished register call that inserted nothing is answered 409.
C26_DuplicateEmailConflicts ==
    /\ \A email \in Emails :
          Cardinality({u \in 1..Len(users) : users[u].email = email}) <= 1
    /\ \A i \in 1..Len(registers) :
          registers[i].pc = "done"
          => /\ registers[i].taken
                => (/\ RegisterHttpStatus(registers[i].result) = "409"
                    /\ registers[i].inserted = 0)
             /\ registers[i].inserted = 0
                => RegisterHttpStatus(registers[i].result) = "409"

====
